---- MODULE Spec2Model ----
(***************************************************************************)
(* The email-draft confirmation workflow of bot.py: /mail builds a draft   *)
(* and stores it in the issuing user's user_data, the inline "Send Email"  *)
(* button dispatches it through send_email and deletes it.                 *)
(*                                                                         *)
(* The Application is built without concurrent_updates and every handler   *)
(* is registered blocking (bot.py:177-184), and send_email is a plain      *)
(* synchronous call (bot.py:152), so one update is handled to completion   *)
(* before the next is taken: each handler is one action.  The order of the *)
(* calls inside a handling is kept in last.trace.  Every call to the chat  *)
(* transport (answer, reply_text, edit_message_text, send_chat_action) may *)
(* raise; nothing in bot.py catches that, so it ends the handler there.    *)
(***************************************************************************)
EXTENDS Integers, Sequences, FiniteSets, TLC

\* ---------------------------------------------------------------- bounds
\* longest text after the command in Spec (the workflow of two users)
MaxText == 2
\* longest text after the command in BuildSpec (one /mail, then activations)
MaxLen == 5

Users == {"u1", "u2"}

\* characters of a message text: a letter, a blank, a line break
Chars == {"a", " ", "\n"}
\* texts of Spec use the letter and the line break only
WorkChars == {"a", "\n"}
TextsOver(chars, n) == UNION {[1..k -> chars] : k \in 0..n}

\* ------------------------------------------------------- string helpers
\* mutant: only blanks are trimmed, line breaks are kept
strip_blanks(s) ==
    LET keep == {i \in 1..Len(s) : s[i] # " "}
    IN  IF keep = {} THEN <<>>
        ELSE SubSeq(s, CHOOSE i \in keep : \A j \in keep : i <= j,
                       CHOOSE i \in keep : \A j \in keep : i >= j)

\* str.strip() with no argument removes leading and trailing whitespace,
\* line breaks included
IsSpace(c) == c \in {" ", "\n"}

RECURSIVE lstrip(_)
lstrip(s) ==
    IF s = <<>> THEN s
    ELSE IF IsSpace(Head(s)) THEN lstrip(Tail(s)) ELSE s

RECURSIVE rstrip(_)
rstrip(s) ==
    IF s = <<>> THEN s
    ELSE IF IsSpace(s[Len(s)]) THEN rstrip(SubSeq(s, 1, Len(s) - 1)) ELSE s

strip(s) == rstrip(lstrip(s))

\* index of the first line break of s, 0 when there is none
find_newline(s) ==
    IF \E i \in 1..Len(s) : s[i] = "\n"
    THEN CHOOSE i \in 1..Len(s) : s[i] = "\n" /\ \A j \in 1..(i - 1) : s[j] # "\n"
    ELSE 0

\* mutant: split at every line break and keep the first two parts
split_newline_all(s) ==
    LET i == find_newline(s)
        rest == SubSeq(s, i + 1, Len(s))
        j == find_newline(rest)
    IN  IF i = 0 THEN <<s>>
        ELSE <<SubSeq(s, 1, i - 1), IF j = 0 THEN rest ELSE SubSeq(rest, 1, j - 1)>>

\* content.split('\n', 1): at most one split, at the first line break
split_newline_1(s) ==
    LET i == find_newline(s)
    IN  IF i = 0 THEN <<s>>
        ELSE <<SubSeq(s, 1, i - 1), SubSeq(s, i + 1, Len(s))>>

\* ------------------------------------------------------------- messages
\* what user_data.get('email_draft') returns when the key is absent
None == [subject |-> <<"None">>, body |-> <<"None">>]
NoBody == <<"[No body provided]">>
Command == <<"/", "m", "a", "i", "l">>
SendEmailConfirm == "send_email_confirm"
CallbackData == {SendEmailConfirm, "other"}
\* how the try block of send_email ends: the statement that raised, or "ok"
RelayOutcomes == {"ok", "build_error", "connect_error", "login_error", "send_error"}
\* the five environment values the module requires
ConfigNames == {"TELEGRAM_TOKEN", "GEMINI_API_KEY", "SENDER_EMAIL",
                "SENDER_APP_PASSWORD", "RECIPIENT_EMAIL"}
\* the exit status of exit() called without an argument
ExitStatus == 0
\* exit_code of a process that has not exited
Running == -1

NoText == <<>>
Msg(kind, subject, body) == [kind |-> kind, subject |-> subject, body |-> body]
NoMsg == Msg("", NoText, NoText)
Usage == Msg("Usage: /mail <Subject Line>", NoText, NoText)
NotFound == Msg("Sorry, I couldn't find the email draft to send.", NoText, NoText)
SentNotice == Msg("Email sent successfully!", NoText, NoText)
FailedNotice == Msg("Failed to send email. Please check the server logs.", NoText, NoText)
Welcome == Msg("Hello", NoText, NoText)
CodeUsage == Msg("Usage: /code <python code snippet to execute>", NoText, NoText)
DraftMsg(subject, body) == Msg("Here is the email draft", subject, body)

\* one call made while handling an update; ok is what the call returned
\* (send_email) or whether it returned at all (a transport call)
Ev(ev, msg, markup, ok) == [ev |-> ev, msg |-> msg, markup |-> markup, ok |-> ok]

VARIABLES
    user_data,    \* user -> the 'email_draft' entry of context.user_data, None when the key is absent
    presented,    \* a message carrying the Send Email button has been delivered
    last,         \* the update handled last: handler, user, input, calls made in order, error raised
    mailed,       \* history: user -> the draft built by the user's latest storing /mail
    dispatched,   \* history: user -> send_email has been called for that draft
    process       \* the process: phase, environment values set, exit code, the send_email call in progress

vars == <<user_data, presented, last, mailed, dispatched, process>>

Process(phase, env, exit_code, u, silent) ==
    [phase |-> phase, env |-> env, exit_code |-> exit_code, user |-> u, silent |-> silent]

\* the calls to the chat transport, each of them awaited
TransportCalls == {"answer", "reply_text", "edit_message_text", "send_chat_action"}

\* the exception that leaves a handler after the calls of trace: a transport
\* call that did not return raises, and so does a del of an absent key
Raised(trace) ==
    IF \E i \in 1..Len(trace) : trace[i].ev \in TransportCalls /\ ~trace[i].ok
    THEN "TransportError"
    ELSE IF \E i \in 1..Len(trace) : trace[i].ev = "del" /\ ~trace[i].ok
    THEN "KeyError"
    ELSE "none"

Handled(handler, u, text, data, trace, replaced) ==
    [handler |-> handler, user |-> u, text |-> text, data |-> data,
     trace |-> trace, replaced |-> replaced, error |-> Raised(trace)]

\* ----------------------------------------------------------- send_email
\* mutant: no with statement, the connection is closed on success only
smtp_session_unclosed(subject, body, relay) ==
    LET build == Ev("EmailMessage", Msg("email", subject, body), FALSE, relay # "build_error")
        connect == Ev("smtp_connect", NoMsg, FALSE, relay # "connect_error")
        login == Ev("smtp_login", NoMsg, FALSE, relay # "login_error")
        send == Ev("smtp_send_message", Msg("email", subject, body), FALSE,
                   relay # "send_error")
        close == Ev("smtp_close", NoMsg, FALSE, TRUE)
    IN  IF ~build.ok THEN <<build>>
        ELSE IF ~connect.ok THEN <<build, connect>>
        ELSE IF ~login.ok THEN <<build, connect, login>>
        ELSE IF ~send.ok THEN <<build, connect, login, send>>
        ELSE <<build, connect, login, send, close>>

\* the statements of the try block in order, up to the one that raises; the
\* with statement closes a connection that was opened, however the block ends
smtp_session(subject, body, relay) ==
    LET build == Ev("EmailMessage", Msg("email", subject, body), FALSE, relay # "build_error")
        connect == Ev("smtp_connect", NoMsg, FALSE, relay # "connect_error")
        login == Ev("smtp_login", NoMsg, FALSE, relay # "login_error")
        send == Ev("smtp_send_message", Msg("email", subject, body), FALSE,
                   relay # "send_error")
        close == Ev("smtp_close", NoMsg, FALSE, TRUE)
    IN  IF ~build.ok THEN <<build>>
        ELSE IF ~connect.ok THEN <<build, connect>>
        ELSE IF ~login.ok THEN <<build, connect, login, close>>
        ELSE <<build, connect, login, send, close>>

\* mutant: the exception text is put into the presented message
log_event_to_chat(success, relay) ==
    Ev("edit_message_text",
       Msg(IF success THEN "Email sent successfully to" ELSE "Failed to send email",
           <<relay>>, NoText), FALSE, TRUE)

\* logger.info on success, logger.error with the exception on failure
log_event(success, relay) ==
    Ev("log", Msg(IF success THEN "Email sent successfully to" ELSE "Failed to send email",
                  <<relay>>, NoText), FALSE, TRUE)

\* every exception of the try block is caught and turned into False
send_email(subject, body, relay) ==
    LET session == smtp_session(subject, body, relay)
    IN  \A i \in 1..Len(session) : session[i].ok

\* --------------------------------------------------------- mail_command
\* mutant: the text after the command is taken untrimmed
mail_content_untrimmed(full_command_text) ==
    SubSeq(full_command_text, Len(Command) + 1, Len(full_command_text))

mail_content(full_command_text) ==
    LET command_name == [offset |-> 0, length |-> Len(Command)]
    IN  strip(SubSeq(full_command_text,
                     command_name.offset + command_name.length + 1,
                     Len(full_command_text)))

\* mutant: no placeholder, the body is left empty
build_draft_empty_body(content) ==
    LET i == find_newline(content)
    IN  IF i # 0
        THEN [subject |-> SubSeq(content, 1, i - 1),
              body |-> SubSeq(content, i + 1, Len(content))]
        ELSE [subject |-> content, body |-> <<>>]

build_draft(content) ==
    LET parts == split_newline_1(content)
    IN  IF Len(parts) = 2
        THEN [subject |-> parts[1], body |-> parts[2]]
        ELSE [subject |-> content, body |-> NoBody]

\* mutant: an entry already stored is kept
store_draft_keep_first(data, u, draft) ==
    IF data[u] = [subject |-> <<"None">>, body |-> <<"None">>]
    THEN [data EXCEPT ![u] = draft] ELSE data

store_draft(data, u, draft) == [data EXCEPT ![u] = draft]

\* mutant: the reply with the button is sent before the draft is stored
present_then_store(store, reply) == <<reply, store>>

\* the assignment to user_data comes first, the awaited reply_text carrying
\* the button after it
store_then_present(store, reply) == <<store, reply>>

mail_command(u, rest, replied) ==
    LET content == mail_content(Command \o rest)
        draft == build_draft(content)
    IN  IF content = <<>>
        THEN /\ last' = Handled("mail_command", u, rest, "",
                                <<Ev("reply_text", Usage, FALSE, replied)>>, None)
             /\ UNCHANGED <<user_data, presented, mailed, dispatched>>
        ELSE /\ user_data' = store_draft(user_data, u, draft)
             /\ mailed' = [mailed EXCEPT ![u] = draft]
             /\ dispatched' = [dispatched EXCEPT ![u] = FALSE]
             /\ presented' = (presented \/ replied)
             /\ last' = Handled("mail_command", u, rest, "",
                                store_then_present(
                                    Ev("store", NoMsg, FALSE, TRUE),
                                    Ev("reply_text", DraftMsg(draft.subject, draft.body),
                                       TRUE, replied)),
                                IF user_data[u] \notin {None, draft} THEN user_data[u] ELSE None)

\* ------------------------------------------------------- button_handler
\* mutant: one draft slot shared by all users
get_draft_shared(data, u) == data["u1"]

get_draft(data, u) == data[u]

\* mutant: the lookup result is not tested
draft_missing_unchecked(draft) == FALSE

\* `if not draft`: None (key absent) is falsy, a stored two-key dict is truthy
draft_missing(draft) == draft = None

\* mutant: the whole store is cleared
delete_draft_all(data, u) == [v \in DOMAIN data |-> [subject |-> <<"None">>, body |-> <<"None">>]]

\* `del context.user_data['email_draft']`
delete_draft(data, u) == [data EXCEPT ![u] = None]

\* user_data when the handler ends: the del statement is reached only when
\* the edit_message_text before it returned
after_edit(data, u, edited) == IF edited THEN delete_draft(data, u) ELSE data

\* mutant: the success notice whatever send_email returned
feedback_always_sent(success) == SentNotice

feedback(success) == IF success THEN SentNotice ELSE FailedNotice

\* mutant: the acknowledgement is sent after the lookup
acknowledge_after_lookup(ack, work) ==
    IF work = <<>> THEN <<ack>> ELSE <<Head(work), ack>> \o Tail(work)

\* `await query.answer()` is the first statement, the rest follows it
acknowledge_first(ack, work) == <<ack>> \o work

button_handler(u, data, relay, answered, edited) ==
    LET ack == Ev("answer", NoMsg, FALSE, answered)
        get == Ev("get", NoMsg, FALSE, TRUE)
        draft == get_draft(user_data, u)
        success == send_email(draft.subject, draft.body, relay)
    IN  /\ presented
        /\ IF ~answered \/ data # SendEmailConfirm
           THEN /\ last' = Handled("button_handler", u, NoText, data,
                                   acknowledge_first(ack, <<>>), None)
                /\ UNCHANGED <<user_data, presented, mailed, dispatched>>
           ELSE IF draft_missing(draft)
           THEN /\ last' = Handled("button_handler", u, NoText, data,
                                   acknowledge_first(ack,
                                       <<get, Ev("edit_message_text", NotFound, FALSE, edited)>>),
                                   None)
                /\ UNCHANGED <<user_data, presented, mailed, dispatched>>
           ELSE LET sent == acknowledge_first(ack,
                              <<get>>
                              \o smtp_session(draft.subject, draft.body, relay)
                              \o <<log_event(success, relay),
                                 Ev("send_email", Msg("email", draft.subject, draft.body),
                                    FALSE, success),
                                 Ev("edit_message_text", feedback(success), FALSE, edited)>>)
                IN  /\ user_data' = after_edit(user_data, u, edited)
                    /\ dispatched' = [dispatched EXCEPT ![u] = TRUE]
                    /\ last' = Handled("button_handler", u, NoText, data,
                                       IF edited
                                       THEN Append(sent, Ev("del", NoMsg, FALSE, user_data[u] # None))
                                       ELSE sent,
                                       None)
                    /\ UNCHANGED <<presented, mailed>>

\* ------------------------------------------------- the other handlers
start_command(u, replied) ==
    /\ last' = Handled("start_command", u, NoText, "",
                       <<Ev("reply_text", Welcome, FALSE, replied)>>, None)
    /\ UNCHANGED <<user_data, presented, mailed, dispatched>>

\* the reply of the generative-text service to a prompt: an opaque text
generate_gemini_response(prompt) == Msg("ai_response", NoText, NoText)

code_command(u, args, typed, replied) ==
    LET typing == Ev("send_chat_action", NoMsg, FALSE, typed)
        trace == IF ~args THEN <<Ev("reply_text", CodeUsage, FALSE, replied)>>
                 ELSE IF ~typed THEN <<typing>>
                 ELSE <<typing,
                        Ev("reply_text", generate_gemini_response("code"), FALSE, replied)>>
    IN  /\ last' = Handled("code_command", u, NoText, "", trace, None)
        /\ UNCHANGED <<user_data, presented, mailed, dispatched>>

handle_message(u, typed, replied) ==
    LET typing == Ev("send_chat_action", NoMsg, FALSE, typed)
        trace == IF ~typed THEN <<typing>>
                 ELSE <<typing,
                        Ev("reply_text", generate_gemini_response("text"), FALSE, replied)>>
    IN  /\ last' = Handled("handle_message", u, NoText, "", trace, None)
        /\ UNCHANGED <<user_data, presented, mailed, dispatched>>

\* ------------------------------------------------------- specifications
Init ==
    /\ user_data = [u \in Users |-> None]
    /\ presented = FALSE
    /\ last = Handled("none", "u1", NoText, "", <<>>, None)
    /\ mailed = [u \in Users |-> None]
    /\ dispatched = [u \in Users |-> FALSE]
    /\ process = Process("serving", ConfigNames, Running, "u1", FALSE)

MailStep ==
    \E u \in Users, rest \in TextsOver(WorkChars, MaxText), replied \in BOOLEAN :
        mail_command(u, rest, replied)

ButtonStep ==
    \E u \in Users, data \in CallbackData, relay \in RelayOutcomes,
       answered \in BOOLEAN, edited \in BOOLEAN :
        button_handler(u, data, relay, answered, edited)

StartStep == \E u \in Users, replied \in BOOLEAN : start_command(u, replied)

CodeStep ==
    \E u \in Users, args \in BOOLEAN, typed \in BOOLEAN, replied \in BOOLEAN :
        code_command(u, args, typed, replied)

TextStep ==
    \E u \in Users, typed \in BOOLEAN, replied \in BOOLEAN : handle_message(u, typed, replied)

Next ==
    /\ process.phase = "serving"
    /\ MailStep \/ ButtonStep \/ StartStep \/ CodeStep \/ TextStep
    /\ UNCHANGED process

Spec == Init /\ [][Next]_vars

\* BuildSpec: the first update is a /mail of a text of up to MaxLen characters
\* over Chars; activations of the presented button follow it
BuildMailStep ==
    \E u \in Users, rest \in TextsOver(Chars, MaxLen), replied \in BOOLEAN :
        /\ last.handler = "none"
        /\ mail_command(u, rest, replied)

BuildNext ==
    /\ process.phase = "serving"
    /\ BuildMailStep \/ ButtonStep
    /\ UNCHANGED process

BuildSpec == Init /\ [][BuildNext]_vars

\* ------------------------------------------ the process around the handlers
\* `if not all([...])`: every one of the five values is set and non-empty
config_complete(env) == env = ConfigNames

\* the module-level code up to run_bot: exit() when a value is missing or
\* genai.configure raised, otherwise the handlers are registered and polled
startup(configured) ==
    /\ process.phase = "boot"
    /\ process' = IF config_complete(process.env) /\ configured
                  THEN Process("serving", process.env, Running, process.user, FALSE)
                  ELSE Process("exited", process.env, ExitStatus, process.user, FALSE)
    /\ UNCHANGED <<user_data, presented, last, mailed, dispatched>>

\* button_handler of u has found a draft and is inside send_email, in the
\* blocking SMTP calls; silent: the relay will never answer
send_email_called(u, silent) ==
    /\ process.phase = "serving"
    /\ presented
    /\ ~draft_missing(get_draft(user_data, u))
    /\ process' = Process("in_send_email", process.env, Running, u, silent)
    /\ UNCHANGED <<user_data, presented, last, mailed, dispatched>>

\* the SMTP calls return or raise, and the handler runs to its end; no
\* timeout is set on the connection, so a silent relay never gets here
send_email_returns(relay, edited) ==
    /\ process.phase = "in_send_email"
    /\ ~process.silent
    /\ button_handler(process.user, SendEmailConfirm, relay, TRUE, edited)
    /\ process' = Process("serving", process.env, Running, process.user, FALSE)

\* an update of user b handled from start to end
UserStep(b) ==
    /\ process.phase = "serving"
    /\ \/ \E rest \in TextsOver(WorkChars, MaxText), replied \in BOOLEAN :
             mail_command(b, rest, replied)
       \/ \E data \in CallbackData, relay \in RelayOutcomes,
             answered \in BOOLEAN, edited \in BOOLEAN :
             button_handler(b, data, relay, answered, edited)
    /\ UNCHANGED process

ProcInit ==
    /\ user_data = [u \in Users |-> None]
    /\ presented = FALSE
    /\ last = Handled("none", "u1", NoText, "", <<>>, None)
    /\ mailed = [u \in Users |-> None]
    /\ dispatched = [u \in Users |-> FALSE]
    /\ \E env \in SUBSET ConfigNames : process = Process("boot", env, Running, "u1", FALSE)

StartupStep == \E configured \in BOOLEAN : startup(configured)
CalledStep == \E u \in Users, silent \in BOOLEAN : send_email_called(u, silent)
ReturnsStep == \E relay \in RelayOutcomes, edited \in BOOLEAN : send_email_returns(relay, edited)
UpdateStep == \E b \in Users : UserStep(b)

ProcNext == StartupStep \/ UpdateStep \/ CalledStep \/ ReturnsStep

\* ProcSpec: the process from its start, with the send_email call of an
\* activation as a step of its own
ProcSpec == ProcInit /\ [][ProcNext]_vars

\* ------------------------------------------------- vocabulary of the claims
\* an acknowledged activation of the Send Email control
Activation(l) ==
    /\ l.handler = "button_handler"
    /\ l.data = SendEmailConfirm
    /\ l.trace[1].ok

SendsOf(l) == SelectSeq(l.trace, LAMBDA e : e.ev = "send_email")

\* the guard path: lookup, then the notice, and nothing else
GuardPath(l) ==
    /\ Len(l.trace) = 3
    /\ l.trace[2].ev = "get"
    /\ l.trace[3].ev = "edit_message_text"
    /\ l.trace[3].msg = NotFound

\* a /mail that stored a draft
StoringMail(l) == l.handler = "mail_command" /\ l.trace[1].ev = "store"

HasBreak(t) == \E i \in 1..Len(t) : t[i] = "\n"
Blank(t) == \A i \in 1..Len(t) : t[i] \in {" ", "\n"}

\* t without its leading and trailing whitespace
Trimmed(t) ==
    LET solid == {i \in 1..Len(t) : t[i] \notin {" ", "\n"}}
    IN  IF solid = {} THEN <<>>
        ELSE SubSeq(t, CHOOSE i \in solid : \A j \in solid : i <= j,
                       CHOOSE i \in solid : \A j \in solid : i >= j)

\* subject is t up to its first line break and body is all that follows it
SplitsAtFirstBreak(t, subject, body) ==
    \E i \in 1..Len(t) :
        /\ t[i] = "\n"
        /\ \A j \in 1..(i - 1) : t[j] # "\n"
        /\ subject = SubSeq(t, 1, i - 1)
        /\ body = SubSeq(t, i + 1, Len(t))

\* ------------------------------------------------------------------ C1
\* C1: for a user with one stored draft, two activations of the Send control
\* handled one after the other with no /mail of that user in between make
\* exactly one send_email call: the first finds the draft and dispatches it,
\* the second finds no draft, makes no send_email call and shows the
\* "couldn't find the email draft" notice.
C1_TwoActivationsOneDispatch ==
    [][LET l == last'
           u == l.user
       IN  Activation(l) =>
             /\ (user_data[u] # None /\ ~dispatched[u]) => Len(SendsOf(l)) = 1
             /\ dispatched[u] => (Len(SendsOf(l)) = 0 /\ GuardPath(l) /\ l.error # "KeyError")
      ]_vars

\* ------------------------------------------------------------------ C2
\* C2: once an activation that found a draft and called send_email has ended,
\* whether send_email returned True or False, the user's store holds no draft.
C2_DraftRemovedAfterDispatch ==
    (Activation(last) /\ Len(SendsOf(last)) > 0) => user_data[last.user] = None

\* ------------------------------------------------------------------ C3
\* C3: an activation by a user with no stored draft makes no send_email call,
\* asks for the message to be edited to the "couldn't find the email draft"
\* notice, raises nothing itself (the only exception that can leave it is one
\* raised by that edit call in the transport) and leaves every user's store
\* as it was.
C3_NoDraftGuard ==
    [][LET l == last'
       IN  (Activation(l) /\ user_data[l.user] = None) =>
             /\ Len(SendsOf(l)) = 0
             /\ GuardPath(l)
             /\ l.error = (IF l.trace[3].ok THEN "none" ELSE "TransportError")
             /\ user_data' = user_data
      ]_vars

C3_Witness ==
    /\ Activation(last)
    /\ GuardPath(last)
    /\ last.error = "none"
    /\ user_data[last.user] = None
    /\ \E b \in Users : b # last.user /\ user_data[b] # None

\* ------------------------------------------------------------------ C4
\* C4: every send_email call is made while handling a send_email_confirm
\* activation of some user u, and what it sends is the draft built by the
\* latest storing /mail of that same u; /mail, /start, /code and plain text
\* never call send_email.
C4_SendOnlyOnConfirm ==
    \A i \in 1..Len(last.trace) :
        last.trace[i].ev = "send_email" =>
            /\ Activation(last)
            /\ mailed[last.user] # None
            /\ last.trace[i].msg = Msg("email", mailed[last.user].subject,
                                       mailed[last.user].body)

C4_Witness ==
    /\ Activation(last)
    /\ Len(SendsOf(last)) = 1
    /\ \E b \in Users : b # last.user /\ user_data[b] \notin {None, mailed[last.user]}

\* ------------------------------------------------------------------ C5
\* C5: a /mail whose text after the command is empty or whitespace-only makes
\* one reply, the usage message without a Send control, and stores nothing:
\* every user's store, and the draft already stored for the sender, stay as
\* they were.
C5_BlankMailStoresNothing ==
    [][LET l == last'
       IN  (l.handler = "mail_command" /\ Blank(l.text)) =>
             /\ Len(l.trace) = 1
             /\ l.trace[1].ev = "reply_text"
             /\ l.trace[1].msg = Usage
             /\ ~l.trace[1].markup
             /\ user_data' = user_data
             /\ presented' = presented
      ]_vars

C5_Witness ==
    /\ last.handler = "mail_command"
    /\ Blank(last.text)
    /\ Len(last.text) > 0
    /\ last.trace[1].msg = Usage
    /\ user_data[last.user] # None

\* ------------------------------------------------------------------ C6
\* C6 as stated: whenever the text after /mail contains a line break, the
\* stored subject is that text up to its first line break and the stored body
\* is all that follows it.
C6_SplitOfRawText ==
    (StoringMail(last) /\ HasBreak(last.text)) =>
        SplitsAtFirstBreak(last.text, user_data[last.user].subject,
                           user_data[last.user].body)

\* C6 amended: the split is made on the text after its leading and trailing
\* whitespace has been removed: whenever the trimmed text contains a line
\* break, the stored subject is the trimmed text up to its first line break
\* and the stored body is all that follows it, further line breaks included.
C6_SplitOfTrimmedText ==
    (last.handler = "mail_command" /\ HasBreak(Trimmed(last.text))) =>
        /\ StoringMail(last)
        /\ SplitsAtFirstBreak(Trimmed(last.text), user_data[last.user].subject,
                              user_data[last.user].body)

C6_Witness ==
    /\ StoringMail(last)
    /\ last.text # Trimmed(last.text)
    /\ HasBreak(user_data[last.user].body)
    /\ SplitsAtFirstBreak(Trimmed(last.text), user_data[last.user].subject,
                          user_data[last.user].body)

\* ------------------------------------------------------------------ C7
\* C7 as stated: for a non-blank text after /mail without a line break, the
\* stored subject is the entire text and the stored body is the placeholder.
C7_SubjectIsRawText ==
    (last.handler = "mail_command" /\ ~Blank(last.text) /\ ~HasBreak(last.text)) =>
        /\ StoringMail(last)
        /\ user_data[last.user].subject = last.text
        /\ user_data[last.user].body = NoBody

\* C7 amended: for a non-blank text after /mail without a line break, the
\* stored subject is the text with its leading and trailing whitespace
\* removed and the stored body is the placeholder "[No body provided]".
C7_SubjectIsTrimmedText ==
    (last.handler = "mail_command" /\ ~Blank(last.text) /\ ~HasBreak(last.text)) =>
        /\ StoringMail(last)
        /\ user_data[last.user].subject = Trimmed(last.text)
        /\ user_data[last.user].body = NoBody

C7_Witness ==
    /\ StoringMail(last)
    /\ ~HasBreak(last.text)
    /\ last.text # Trimmed(last.text)
    /\ user_data[last.user].subject = Trimmed(last.text)
    /\ user_data[last.user].body = NoBody

\* ------------------------------------------------------------------ C8
\* C8: every draft held in the store has a non-empty subject and a non-empty
\* body.
C8_DraftFieldsPopulated ==
    \A u \in Users :
        user_data[u] # None =>
            /\ Len(user_data[u].subject) > 0
            /\ Len(user_data[u].body) > 0

\* a text with a line break whose trimmed form has none: the placeholder is
\* what fills the body
C8_Witness ==
    /\ StoringMail(last)
    /\ HasBreak(last.text)
    /\ user_data[last.user].body = NoBody

\* ------------------------------------------------------------------ C9
\* C9: handling an update of user A (a /mail, or an activation that dispatches
\* or hits the guard) leaves the draft stored for every other user B as it
\* was.
C9_OtherUsersUntouched ==
    [][\A b \in Users : b # last'.user => user_data'[b] = user_data[b]]_vars

C9_Witness ==
    /\ Activation(last)
    /\ Len(SendsOf(last)) = 1
    /\ last.error = "none"
    /\ user_data[last.user] = None
    /\ \E b \in Users : b # last.user /\ user_data[b] # None

\* ------------------------------------------------------------------ C10
\* C10: a user has at most one stored draft, the one built by that user's
\* latest storing /mail: a /mail that replaces a stored draft d1 leaves the
\* store holding the new draft d2 and not d1, and an activation dispatches
\* the subject and body of the latest draft.
C10_LastWriteWins ==
    /\ \A u \in Users : user_data[u] # None => user_data[u] = mailed[u]
    /\ StoringMail(last) =>
          /\ user_data[last.user] = mailed[last.user]
          /\ last.trace[2].msg = DraftMsg(mailed[last.user].subject, mailed[last.user].body)
          /\ last.replaced # None => user_data[last.user] # last.replaced
    /\ (Activation(last) /\ Len(SendsOf(last)) > 0) =>
          SendsOf(last)[1].msg = Msg("email", mailed[last.user].subject,
                                     mailed[last.user].body)

C10_Witness ==
    /\ StoringMail(last)
    /\ last.replaced # None
    /\ user_data[last.user] = mailed[last.user]
    /\ user_data[last.user] # last.replaced

\* ------------------------------------------------------------------ C11
EditsOf(l) == SelectSeq(l.trace, LAMBDA e : e.ev = "edit_message_text")

\* a handling that called send_email
Dispatch(l) == Activation(l) /\ Len(SendsOf(l)) > 0

\* C11: a handling that called send_email asks for exactly one edit of the
\* presented message, after send_email returned: to the success notice if and
\* only if send_email returned True, to the failure notice if and only if it
\* returned False.
C11_FeedbackMatchesResult ==
    Dispatch(last) =>
        /\ Len(SendsOf(last)) = 1
        /\ Len(EditsOf(last)) = 1
        /\ \E i, j \in 1..Len(last.trace) :
              /\ i < j
              /\ last.trace[i].ev = "send_email"
              /\ last.trace[j].ev = "edit_message_text"
        /\ EditsOf(last)[1].msg = SentNotice <=> SendsOf(last)[1].ok
        /\ EditsOf(last)[1].msg = FailedNotice <=> ~SendsOf(last)[1].ok

C11_Witness ==
    /\ Dispatch(last)
    /\ ~SendsOf(last)[1].ok
    /\ EditsOf(last)[1].msg = FailedNotice
    /\ EditsOf(last)[1].ok

\* ------------------------------------------------------------------ C12
LogsOf(l) == SelectSeq(l.trace, LAMBDA e : e.ev = "log")

\* C12: after a failed dispatch every message handed to the chat transport is
\* the one fixed failure notice, which carries nothing of the exception, so it
\* is the same whatever was raised (the credentials are read by smtp.login
\* only and reach the handler through the exception alone); the exception is
\* written to the log.
C12_FailureNoticeIsGeneric ==
    (Dispatch(last) /\ ~SendsOf(last)[1].ok) =>
        /\ \A i \in 1..Len(last.trace) :
              (last.trace[i].ev \in TransportCalls /\ last.trace[i].ev # "answer") =>
                  last.trace[i].msg = FailedNotice
        /\ FailedNotice.subject = NoText /\ FailedNotice.body = NoText
        /\ Len(LogsOf(last)) = 1
        /\ LogsOf(last)[1].msg.kind = "Failed to send email"
        /\ LogsOf(last)[1].msg.subject \in {<<r>> : r \in RelayOutcomes \ {"ok"}}

C12_Witness ==
    /\ Dispatch(last)
    /\ ~SendsOf(last)[1].ok
    /\ EditsOf(last)[1].ok
    /\ LogsOf(last)[1].msg.subject = <<"login_error">>

\* ------------------------------------------------------------------ C13
\* C13: a process started with one of the five configuration values missing
\* handles no update, and when it has exited its exit code is not zero.
C13_MissingConfigExitsNonZero ==
    ~config_complete(process.env) =>
        /\ process.phase \in {"boot", "exited"}
        /\ last.handler = "none"
        /\ process.phase = "exited" => process.exit_code # 0

\* ------------------------------------------------------------------ C18
\* C18: an activation that is inside send_email always has a way on: the
\* wait for the relay ends, by an answer or by a timeout, and the handler
\* goes on to its notice and the removal.
C18_DispatchEnds ==
    process.phase = "in_send_email" => ENABLED ReturnsStep

\* ------------------------------------------------------------------ C19
\* C19: while the send_email call of user A's activation is in progress, an
\* update of any other user B can be handled from start to end.
C19_OtherUsersServed ==
    process.phase = "in_send_email" =>
        \A b \in Users \ {process.user} : ENABLED UserStep(b)

\* ------------------------------------------------------------------ C14
\* the work of an activation: the draft lookup and everything of send_email
DispatchWork == {"get", "EmailMessage", "smtp_connect", "smtp_login",
                 "smtp_send_message", "smtp_close", "log", "send_email",
                 "edit_message_text", "del"}

\* C14: in every handling of a control activation query.answer is the first
\* call, and the lookup and the send_email call are made only after it has
\* returned.
C14_AcknowledgedFirst ==
    last.handler = "button_handler" =>
        /\ last.trace[1].ev = "answer"
        /\ \A i \in 1..Len(last.trace) :
              last.trace[i].ev \in DispatchWork => (i > 1 /\ last.trace[1].ok)

C14_Witness ==
    /\ last.handler = "button_handler"
    /\ last.trace[1].ev = "answer"
    /\ last.trace[1].ok
    /\ \E i \in 2..Len(last.trace) : last.trace[i].ev = "send_email"

\* ------------------------------------------------------------------ C15
\* C15: a /mail makes the store assignment before the reply that carries the
\* Send control, and the draft shown is the one stored; so whenever a control
\* has been presented some user has mailed a draft, and the draft of a user's
\* latest /mail is either still that user's entry or was handed to send_email
\* by an activation.
C15_StoreThenPresent ==
    /\ last.handler = "mail_command" =>
          \A j \in 1..Len(last.trace) :
              last.trace[j].markup =>
                  /\ \E i \in 1..(j - 1) : last.trace[i].ev = "store"
                  /\ last.trace[j].msg = DraftMsg(user_data[last.user].subject,
                                                  user_data[last.user].body)
    /\ presented => \E u \in Users : mailed[u] # None
    /\ \A u \in Users :
          mailed[u] # None =>
              \/ user_data[u] = mailed[u]
              \/ user_data[u] = None /\ dispatched[u]

C15_Witness ==
    /\ last.handler = "mail_command"
    /\ \E j \in 1..Len(last.trace) : last.trace[j].markup /\ last.trace[j].ok
    /\ presented
    /\ user_data[last.user] = mailed[last.user]
    /\ \E b \in Users : user_data[b] = None /\ mailed[b] # None

\* ------------------------------------------------------------------ C16
\* C16: whichever statement of its try block fails, send_email returns False
\* and the handler goes on to its edit; it returns True exactly when the one
\* message was submitted; a connection that was opened is closed afterwards,
\* on success and on failure.
C16_UniformFailure ==
    Dispatch(last) =>
        LET t == last.trace
            submitted == {i \in 1..Len(t) : t[i].ev = "smtp_send_message"}
        IN  /\ SendsOf(last)[1].ok <=> \E i \in submitted : t[i].ok
            /\ Cardinality(submitted) <= 1
            /\ (\E i \in 1..Len(t) : t[i].ev \notin TransportCalls /\ t[i].ev # "send_email"
                                       /\ ~t[i].ok)
                  => ~SendsOf(last)[1].ok
            /\ \A i \in 1..Len(t) :
                  (t[i].ev = "smtp_connect" /\ t[i].ok) =>
                      \E j \in (i + 1)..Len(t) : t[j].ev = "smtp_close"
            /\ Len(EditsOf(last)) = 1
            /\ last.error = "none" \/ ~EditsOf(last)[1].ok

C16_Witness ==
    /\ Dispatch(last)
    /\ ~SendsOf(last)[1].ok
    /\ \E i \in 1..Len(last.trace) : last.trace[i].ev = "smtp_login" /\ ~last.trace[i].ok
    /\ \E i \in 1..Len(last.trace) : last.trace[i].ev = "smtp_close"
    /\ last.error = "none"

\* ------------------------------------------------------------------ C17
\* C17: when the edit of the presented message fails after send_email has
\* returned, the draft is removed from the store all the same.
C17_RemovedThoughEditFailed ==
    (Dispatch(last) /\ ~EditsOf(last)[1].ok) => user_data[last.user] = None

\* ------------------------------------------------------------------ C20
\* C20: handlings of one user never overlap inside the lookup-dispatch-remove
\* sequence, so each stored draft is handed to send_email at most once, the
\* del never meets an absent key, and an entry disappears from the store only
\* in a handling of its owner that handed that very draft to send_email.
C20_DispatchSequenceAtomic ==
    [][LET l == last'
       IN  /\ Dispatch(l) => ~dispatched[l.user]
           /\ l.error # "KeyError"
           /\ \A v \in Users :
                 (user_data[v] # None /\ user_data'[v] = None) =>
                     /\ Dispatch(l)
                     /\ l.user = v
                     /\ SendsOf(l)[1].msg = Msg("email", user_data[v].subject,
                                                user_data[v].body)
      ]_vars

====
